---- MODULE Spec2Model ----
(***************************************************************************)
(* GeoMind-Extractor: the structured extraction engine                     *)
(* (entity_extraction/llm_extractor.py, get_structured_data_with_retry)    *)
(* and the three-phase pipeline (knowledge_synthesis_pipeline.py).         *)
(***************************************************************************)
EXTENDS Integers, Sequences, FiniteSets, TLC

(***************************************************************************)
(* Bounds of the model.                                                    *)
(***************************************************************************)
\* number of sequential extract calls a behaviour makes
MaxCalls == 3

(***************************************************************************)
(* Program constants.                                                      *)
(***************************************************************************)
\* get_structured_data_with_retry(..., max_retries: int = 3)
max_retries == 3

\* the failure value of extract, a missing cache entry
None == [kind |-> "None"]
Absent == [kind |-> "absent"]

(***************************************************************************)
(* JSON data and the pydantic schemas (models.py).  A JSON object is       *)
(* abstracted to the three fields that decide validation:                  *)
(*   confidence_score: "float" (a number in [0,1]), "numstr" (a numeric    *)
(*     string, which pydantic coerces to float), "oob" (out of range) or   *)
(*     "-" (absent);                                                       *)
(*   raw_text, map_description: "str" or "-" (absent);                     *)
(*   tables (of TableList), entities (the entities and relationships of    *)
(*     KnowledgeGraph): "list" or "-" (absent).                            *)
(***************************************************************************)
JsonObject(cs, rt, md, tb, en) ==
    [confidence_score |-> cs, raw_text |-> rt, map_description |-> md,
     tables |-> tb, entities |-> en]

\* an object without tables and entities
JsonDoc(cs, rt, md) == JsonObject(cs, rt, md, "-", "-")

JsonDocs ==
    { JsonDoc(cs, rt, md) : cs \in {"float", "numstr", "oob", "-"},
                            rt \in {"str", "-"}, md \in {"str", "-"} }

Schemas == {"ExtractedMetadata", "MapAnalysis"}

\* the schemas process_single_pdf extracts with: TableList is the wrapper
\* model of extract_tables
PdfSchemas == Schemas \cup {"TableList", "KnowledgeGraph"}

\* the required field of each schema, besides confidence_score
RequiredField(model_class) ==
    IF model_class = "ExtractedMetadata" THEN "raw_text"
    ELSE IF model_class = "MapAnalysis" THEN "map_description"
    ELSE IF model_class = "TableList" THEN "tables"
    ELSE "entities"

\* TableList declares no confidence_score of its own
DeclaresConfidence(model_class) == model_class # "TableList"

\* str(e) of the ValidationError pydantic raises for a JSON object: one line
\* per failing field (empty: the object is valid)
ValidationErrors(model_class, doc) ==
    (IF ~DeclaresConfidence(model_class) THEN ""
     ELSE IF doc.confidence_score \in {"float", "numstr"} THEN ""
     ELSE IF doc.confidence_score = "-" THEN "confidence_score: field required; "
     ELSE "confidence_score: ensure this value is less than or equal to 1; ")
    \o
    (IF doc[RequiredField(model_class)] # "-" THEN ""
     ELSE RequiredField(model_class) \o ": field required; ")

\* model_class.parse_obj(doc) for a valid doc: coerces confidence_score to a
\* float and drops the fields the schema does not declare
parse_obj(model_class, doc) ==
    [cls |-> model_class,
     confidence_score |-> IF ~DeclaresConfidence(model_class) THEN "-"
                          ELSE IF doc.confidence_score = "numstr" THEN "float"
                          ELSE doc.confidence_score,
     raw_text |-> IF model_class = "ExtractedMetadata" THEN doc.raw_text ELSE "-",
     map_description |-> IF model_class = "MapAnalysis" THEN doc.map_description ELSE "-",
     tables |-> IF model_class = "TableList" THEN doc.tables ELSE "-",
     entities |-> IF model_class = "KnowledgeGraph" THEN doc.entities ELSE "-"]

\* a dict() that loses the string fields
LossyDict(validated_data) ==
    JsonDoc(validated_data.confidence_score, "-", "-")

\* validated_data.dict()
dict(validated_data) ==
    JsonObject(validated_data.confidence_score, validated_data.raw_text,
               validated_data.map_description, validated_data.tables,
               validated_data.entities)

\* an instance of the schema: what "validated against model_class" means
Conforms(model_class, v) ==
    /\ v \in [cls : PdfSchemas, confidence_score : {"float", "-"},
              raw_text : {"str", "-"}, map_description : {"str", "-"},
              tables : {"list", "-"}, entities : {"list", "-"}]
    /\ v.cls = model_class
    /\ DeclaresConfidence(model_class) => v.confidence_score = "float"
    /\ v[RequiredField(model_class)] # "-"

(***************************************************************************)
(* Replies of the completion service: a text, as a sequence of tokens.     *)
(* A token is a fence marker, a piece of prose, or a JSON document.        *)
(***************************************************************************)
NotJson == [tok |-> "text", chars |-> "not json"]
\* the markers of a fenced code block: three backquotes, with and without "json"
FenceJson == [tok |-> "fence json"]
Fence == [tok |-> "fence"]
Prose == [tok |-> "text", chars |-> "Here is the JSON you asked for:"]
JsonToken(doc) == [tok |-> "json", doc |-> doc]

PlainReply(doc) == <<JsonToken(doc)>>
FencedReply(doc) == <<FenceJson, JsonToken(doc), Fence>>
ProseReply(doc) == <<Prose, JsonToken(doc)>>

\* response.text.replace(FenceJson, "").replace(Fence, "").strip()
CleanText(text) ==
    SelectSeq(text, LAMBDA t : t \notin {FenceJson, Fence})

\* json.loads succeeds exactly on a text that is one JSON document
JsonLoads(cleaned_text) ==
    IF Len(cleaned_text) = 1 /\ cleaned_text[1].tok = "json"
    THEN cleaned_text[1].doc ELSE NotJson

\* str(e) of the JSONDecodeError or ValidationError of a reply
ErrorText(model_class, text) ==
    LET json_data == JsonLoads(CleanText(text)) IN
    IF json_data = NotJson THEN "Expecting value: line 1 column 1 (char 0)"
    ELSE ValidationErrors(model_class, json_data)

\* lines 122-124: the reply parses as JSON and validates
ReplyValid(model_class, text) == ErrorText(model_class, text) = ""

GoodMeta == JsonDoc("float", "str", "-")
CoercedMap == JsonDoc("numstr", "-", "str")
BothDoc == JsonDoc("float", "str", "str")
BadDoc == JsonDoc("oob", "-", "-")

Replies ==
    { PlainReply(GoodMeta), FencedReply(CoercedMap), ProseReply(GoodMeta),
      PlainReply(BadDoc), <<NotJson>> }

(***************************************************************************)
(* Requests.  Strings are sequences of characters; the digest is taken to  *)
(* be collision-free, so a cache key is its seed.                          *)
(***************************************************************************)
RECURSIVE Concat(_)
Concat(items) ==
    IF items = <<>> THEN <<>> ELSE Head(items) \o Concat(Tail(items))

\* generate_cache_key(prompt, input_data): the prompt followed by every item
\* of input_data but the first
generate_cache_key(prompt, input_data) ==
    prompt \o Concat(Tail(input_data))

Request(model_class, base_prompt, context) ==
    [model_class |-> model_class, base_prompt |-> base_prompt,
     input_data |-> <<base_prompt>> \o context]

Requests ==
    { Request("ExtractedMetadata", <<"a">>, << <<"b", "c">> >>),
      Request("MapAnalysis", <<"a">>, << <<"b", "c">> >>),
      Request("ExtractedMetadata", <<"a">>, << <<"d">> >>),
      Request("MapAnalysis", <<"a", "b">>, << <<"c">> >>) }

RequestKey(req) == generate_cache_key(req.base_prompt, req.input_data)

Keys == { RequestKey(req) : req \in Requests }

\* contents of the cache file before the first call
InitialCaches ==
    { [k \in Keys |-> Absent],
      [k \in Keys |-> IF k = <<"a", "b", "c">> THEN BothDoc ELSE Absent],
      [k \in Keys |-> IF k = <<"a", "b", "c">> THEN BadDoc ELSE Absent] }

\* a feedback block that does not quote the error
FeedbackWithoutErrorText(base_prompt, errors) ==
    base_prompt \o <<"--- FEEDBACK ---",
                     "Your previous response was not valid. Please review the required JSON structure, correct the error, and provide only the valid JSON object.">>

\* lines 136-142: the prompt of the next attempt
FeedbackPrompt(base_prompt, errors) ==
    base_prompt \o <<"--- FEEDBACK ---",
                     "Your previous response was not valid. Error: ", errors,
                     ". Please review the required JSON structure, correct the error, and provide only the valid JSON object.">>

VARIABLES
    cache_file,     \* CACHE_FILE: key -> cached dict, or Absent
    pc,             \* "idle", or "loop" inside get_structured_data_with_retry
    request,        \* the arguments of the running call
    cache,          \* the dict load_cache() returned to the running call
    current_input,  \* the list sent to the agent (the caller's input_data)
    attempt,        \* the loop variable
    sent,           \* the inputs sent to the completion service by this call
    outcomes,       \* what each attempt of this call met: "valid", "invalid", "exception"
    error_log,      \* str(e) of each attempt of this call ("" when it succeeded)
    backoffs,       \* the number of time.sleep(2) calls of this call
    log             \* the calls that have returned: request, result, calls

extract_vars ==
    <<cache_file, pc, request, cache, current_input, attempt, sent, outcomes,
      error_log, backoffs, log>>

\* the state of one run of process_document
VARIABLES
    stage,            \* position of process_document
    preprocessing_ok, \* _preprocess_document returned a result
    task_plan,        \* the agent types of triage_result['task_plan']
    base_tables,      \* the list object behind analysis_input['data_tables']
    input_tables,     \* the contents of base_tables when the tasks were submitted
    task,             \* per agent: "none", "start", "mid", "done" or "hung"
    enhanced_tables,  \* DataAnalystAgent.process: result of the enhanced extraction
    task_result,      \* per agent: the value its process() returned
    pending,          \* the futures the collection loop has still to visit
    timed_out,        \* the agents whose future.result(timeout=300) timed out
    expert_results,   \* the dict the collection loop fills
    final_result,     \* what process_document returned
    document,         \* the text extract_full_text_from_pdf finds, and its chunks
    triage,           \* what the triage call of the Librarian met
    content_index,    \* the DocumentContentIndex of the Librarian
    invocations,      \* the extraction calls made so far: site, via, late
    task_at_cancel    \* the value of task when the run was interrupted

pipeline_vars ==
    <<stage, preprocessing_ok, task_plan, base_tables, input_tables, task,
      enhanced_tables, task_result, pending, timed_out, expert_results,
      final_result, document, triage, content_index, invocations,
      task_at_cancel>>

\* the document and what Phase 1 made of it
triage_vars == <<document, triage, content_index>>

\* concurrent calls of get_structured_data_with_retry in one process
VARIABLES
    workers,          \* per thread: position, request, loaded cache dict, result
    file_ok           \* CACHE_FILE holds one complete JSON document

worker_vars == <<workers, file_ok>>

\* one call of SynthesizerAgent.process
VARIABLES
    synth_input,        \* input_data: the three expert results
    synth_pc,           \* position of SynthesizerAgent.process
    intermediate_kg,    \* the nodes and relationships of the fused graph
    validation_results, \* check name -> ValidationResult
    database_records,   \* the records of _map_to_database_schema
    synth_output        \* the dict process returned

synth_vars ==
    <<synth_input, synth_pc, intermediate_kg, validation_results,
      database_records, synth_output>>

\* one call of process_single_pdf
VARIABLES
    pdf_document,       \* the text chunks and the image paths of the PDF
    pdf_pc,             \* position of process_single_pdf
    structured_output   \* the dict process_single_pdf returned

pdf_vars == <<pdf_document, pdf_pc, structured_output>>

vars == <<extract_vars, pipeline_vars, worker_vars, synth_vars, pdf_vars>>

Returned(req, result, calls) ==
    [request |-> req, result |-> result, calls |-> calls]

\* a cache hit that skips the validation of the cached entry
CacheHitUnvalidated(model_class, c, cache_key) ==
    c[cache_key] # Absent

\* lines 98-106: the cached entry is used only if it validates
CacheHit(model_class, c, cache_key) ==
    /\ c[cache_key] # Absent
    /\ ValidationErrors(model_class, c[cache_key]) = ""

InitExtract ==
    /\ cache_file \in InitialCaches
    /\ pc = "idle"
    /\ request = None
    /\ cache = None
    /\ current_input = <<>>
    /\ attempt = 0
    /\ sent = <<>>
    /\ outcomes = <<>>
    /\ error_log = <<>>
    /\ backoffs = 0
    /\ log = <<>>

\* lines 94-108: key, cache lookup, and the start of the loop
StartExtract(req) ==
    /\ pc = "idle"
    /\ LET cache_key == generate_cache_key(req.base_prompt, req.input_data)
           loaded == cache_file
       IN  IF CacheHit(req.model_class, loaded, cache_key)
           THEN /\ log' = Append(log, Returned(req,
                              parse_obj(req.model_class, loaded[cache_key]), 0))
                /\ sent' = <<>>
                /\ outcomes' = <<>>
                /\ error_log' = <<>>
                /\ backoffs' = 0
                /\ UNCHANGED <<pc, request, cache, current_input, attempt>>
           ELSE /\ pc' = "loop"
                /\ request' = req
                /\ cache' = loaded
                /\ current_input' = req.input_data
                /\ attempt' = 0
                /\ sent' = <<>>
                /\ outcomes' = <<>>
                /\ error_log' = <<>>
                /\ backoffs' = 0
                /\ UNCHANGED log
    /\ UNCHANGED cache_file
    /\ UNCHANGED <<pipeline_vars, worker_vars, synth_vars, pdf_vars>>

\* one of the sequential calls a behaviour of the engine makes
CallExtract(req) ==
    /\ Len(log) < MaxCalls
    /\ StartExtract(req)

\* lines 133-145: what a parse or validation failure does to the input
AfterInvalid(base_prompt, input, errors, att) ==
    IF att < max_retries - 1
    THEN [input EXCEPT ![1] = FeedbackPrompt(base_prompt, errors)]
    ELSE input

\* a loop that stops one attempt early
LoopStopsEarly(att) == att < max_retries - 1

\* line 110: for attempt in range(max_retries)
LoopContinues(att) == att < max_retries

\* a save that keeps an entry the cache already has (dict.setdefault)
SaveIfAbsent(c, cache_key, validated_data) ==
    IF c[cache_key] = Absent THEN [c EXCEPT ![cache_key] = dict(validated_data)]
    ELSE c

\* a success that is not written to the cache
SaveNothing(c, cache_key, validated_data) == c

\* a save that writes a file holding the new entry alone
SaveOnlyOwnEntry(c, cache_key, validated_data) ==
    [k \in DOMAIN c |-> IF k = cache_key THEN dict(validated_data) ELSE Absent]

\* lines 128-129: cache[cache_key] = validated_data.dict(); save_cache(cache)
SaveOnSuccess(c, cache_key, validated_data) ==
    [c EXCEPT ![cache_key] = dict(validated_data)]

\* lines 113-145: one attempt to which the service replies with a text
AttemptReply(text) ==
    /\ pc = "loop"
    /\ LoopContinues(attempt)
    /\ sent' = Append(sent, current_input)
    /\ IF ReplyValid(request.model_class, text)
       THEN LET validated_data ==
                    parse_obj(request.model_class, JsonLoads(CleanText(text)))
                cache_key == RequestKey(request)
            IN  /\ cache_file' = SaveOnSuccess(cache, cache_key, validated_data)
                /\ log' = Append(log, Returned(request, validated_data, Len(sent')))
                /\ outcomes' = Append(outcomes, "valid")
                /\ error_log' = Append(error_log, "")
                /\ pc' = "idle"
                /\ UNCHANGED <<request, cache, current_input, attempt>>
       ELSE /\ current_input' = AfterInvalid(request.base_prompt, current_input,
                                    ErrorText(request.model_class, text), attempt)
            /\ attempt' = attempt + 1
            /\ outcomes' = Append(outcomes, "invalid")
            /\ error_log' = Append(error_log, ErrorText(request.model_class, text))
            /\ UNCHANGED <<cache_file, pc, request, cache, log>>
    /\ UNCHANGED backoffs
    /\ UNCHANGED <<pipeline_vars, worker_vars, synth_vars, pdf_vars>>

\* a handler that retries without consuming an attempt
RetrySameAttempt(att) == att

\* lines 147-150 and 110: the exception handler ends the iteration, the loop
\* moves to the next value of attempt
AttemptAfterException(att) == att + 1

\* str(e) of an exception of the agent call
TransportError == "503 service unavailable"

\* a handler that rebuilds the input from the base prompt
ExceptionDropsFeedback(base_prompt, input) == [input EXCEPT ![1] = base_prompt]

\* lines 147-150: the handler does not touch current_input
AfterException(base_prompt, input) == input

\* lines 149-150: time.sleep(2) when an attempt remains
Backoff(att) == IF att < max_retries - 1 THEN 1 ELSE 0

\* lines 147-150: the agent call raises; the exception is caught, the loop
\* goes on after a sleep
AttemptException ==
    /\ pc = "loop"
    /\ LoopContinues(attempt)
    /\ sent' = Append(sent, current_input)
    /\ outcomes' = Append(outcomes, "exception")
    /\ error_log' = Append(error_log, TransportError)
    /\ current_input' = AfterException(request.base_prompt, current_input)
    /\ backoffs' = backoffs + Backoff(attempt)
    /\ attempt' = AttemptAfterException(attempt)
    /\ UNCHANGED <<cache_file, pc, request, cache, log>>
    /\ UNCHANGED <<pipeline_vars, worker_vars, synth_vars, pdf_vars>>

\* lines 152-153: the loop is exhausted
ReturnNone ==
    /\ pc = "loop"
    /\ ~LoopContinues(attempt)
    /\ log' = Append(log, Returned(request, None, Len(sent)))
    /\ pc' = "idle"
    /\ UNCHANGED <<cache_file, request, cache, current_input, attempt, sent,
                   outcomes, error_log, backoffs>>
    /\ UNCHANGED <<pipeline_vars, worker_vars, synth_vars, pdf_vars>>

Next ==
    \/ \E req \in Requests : CallExtract(req)
    \/ \E text \in Replies : AttemptReply(text)
    \/ AttemptException
    \/ ReturnNone

(***************************************************************************)
(* The three-phase pipeline (knowledge_synthesis_pipeline.py).             *)
(***************************************************************************)
\* the expert agents _run_expert_agents_parallel can submit, in the order
\* in which it submits them and iterates over futures
SubmitOrder == <<"map_analyst", "geochemist", "data_analyst">>
Agents == {"map_analyst", "geochemist", "data_analyst"}

\* the agent_type values _create_task_plan can put into a task plan
AgentTypes == Agents \cup {"text_synthesizer"}

\* What an entry of the Phase-2 result holds.  status: the agent returned
\* "success" or "failed" (its own except branch), "orchestrator_failed" is the
\* {'status': 'failed', 'error': ...} of the collection loop, "absent" the {}
\* default.  data: the pydantic object of the finding ("model") or "none".
\* count: feature_count / conclusions_count / standardized_tables_count.
\* seen: the number of data tables the agent read.
Finding(status, data, count, seen) ==
    [status |-> status, data |-> data, count |-> count, seen |-> seen]

EmptyDict == Finding("absent", "none", 0, 0)
CollectFailed == Finding("orchestrator_failed", "none", 0, 0)
AgentFailed == Finding("failed", "none", 0, 0)
AgentSuccess(count, seen) == Finding("success", "model", count, seen)

\* the number of tables extract_tables can hand to Phase 2
MaxBaseTables == 2

Tables(n) == [i \in 1..n |-> "base"]

NoResult == [status |-> "not returned", stage |-> "-", synthesized_knowledge |-> "-"]

\* line 105: len(full_text.strip()) < 100
MinTextLength == 100

\* A document: the length of its text, the length of the stripped text, and
\* its chunks.  A chunk is the set of the keywords that occur in it.
Doc(text_len, stripped_len, chunks) ==
    [text_len |-> text_len, stripped_len |-> stripped_len, chunks |-> chunks]

EmptyDoc == Doc(0, 0, <<>>)
WhitespaceDoc == Doc(3, 0, <<>>)
ShortDoc == Doc(99, 99, << {"map"} >>)
PlainDoc == Doc(100, 100, << {} >>)

Documents ==
    { EmptyDoc, WhitespaceDoc, ShortDoc, PlainDoc,
      Doc(250, 240, << {"map"}, {"composition"} >>),
      Doc(130, 130, << {"analysis"} >>),
      Doc(400, 390, << {"map"}, {"table"}, {"géochimique"} >>) }

\* lines 103-107: not full_text or len(full_text.strip()) < 100
TextObtained(doc) ==
    doc.text_len # 0 /\ ~(doc.stripped_len < MinTextLength)

ContentUnit(content_type, keywords, description) ==
    [content_type |-> content_type, keywords |-> keywords,
     description |-> description]

\* _create_default_content_units, lines 186-204: the keyword test of one chunk
DefaultContentUnit(chunk) ==
    IF chunk \cap {"figure", "fig", "carte", "map", "géologique"} # {}
    THEN ContentUnit("figure", {"geological_map"}, chunk)
    ELSE IF chunk \cap {"table", "tableau", "data", "analysis"} # {}
    THEN ContentUnit("table", {"data_table"}, chunk)
    ELSE IF chunk \cap {"geochemical", "géochimique", "chemical", "composition"} # {}
    THEN ContentUnit("text", {"geochemistry"}, chunk)
    ELSE ContentUnit("text", {}, chunk)

\* _create_default_content_units: one unit per chunk
create_default_content_units(chunks) ==
    [i \in 1..Len(chunks) |-> DefaultContentUnit(chunks[i])]

\* what generate_content gave the Librarian: it raised, or a text that is
\* not JSON, or JSON with a unit that ContentUnit rejects, or JSON with units
TriageReply(kind, content_units) ==
    [kind |-> kind, content_units |-> content_units]

TriageReplies ==
    { TriageReply("raise", <<>>), TriageReply("not json", <<>>),
      TriageReply("invalid", <<>>),
      TriageReply("json", <<>>),
      TriageReply("json", << ContentUnit("figure", {}, {}) >>),
      TriageReply("json", << ContentUnit("text", {"geochemistry"}, {}),
                             ContentUnit("table", {}, {}) >>),
      TriageReply("json", << ContentUnit("figure", {}, {}),
                             ContentUnit("table", {}, {"analysis"}) >>) }

Index(content_units, confidence_score) ==
    [content_units |-> content_units, confidence_score |-> confidence_score]

NoIndex == Index(<<>>, "-")

\* a fallback that makes an index without content units
IndexWithoutUnits(reply, chunks) ==
    IF reply.kind = "json" THEN Index(reply.content_units, "0.8")
    ELSE Index(<<>>, "0.3")

\* _generate_content_index and _parse_content_analysis_result: a text that
\* is not JSON is replaced by the default units inside the parser, any other
\* exception by the basic index
generate_content_index(reply, chunks) ==
    IF reply.kind = "json" THEN Index(reply.content_units, "0.8")
    ELSE IF reply.kind = "not json"
    THEN Index(create_default_content_units(chunks), "0.8")
    ELSE Index(create_default_content_units(chunks), "0.3")

\* _create_task_plan: the agent types of the tasks
create_task_plan(content_units) ==
    LET units == { content_units[i] : i \in 1..Len(content_units) } IN
    { a \in AgentTypes :
        \/ /\ a = "map_analyst"
           /\ \E u \in units : u.content_type = "figure"
                                \/ "geological_map" \in u.keywords
        \/ /\ a = "data_analyst"
           /\ \E u \in units : u.content_type = "table"
                                \/ "data_table" \in u.keywords
        \/ /\ a = "geochemist"
           /\ \E u \in units :
                  \/ "geochemistry" \in u.keywords
                  \/ u.description \cap {"geochemical", "chemical",
                                          "composition", "analysis"} # {}
        \/ /\ a = "text_synthesizer"
           /\ \E u \in units : u.content_type = "text" /\ u.keywords # {} }

\* an extraction call: where it is made, through what, and whether the run
\* had been interrupted when it was made
Invocation(site, via) ==
    [site |-> site, via |-> via, late |-> stage = "interrupted"]

Engine == "get_structured_data_with_retry"
Direct == "agent_manager.generate_content"

InitPipeline ==
    /\ stage = "start"
    /\ preprocessing_ok = FALSE
    /\ task_plan = {}
    /\ base_tables = <<>>
    /\ input_tables = <<>>
    /\ task = [a \in Agents |-> "none"]
    /\ enhanced_tables = <<>>
    /\ task_result = [a \in Agents |-> EmptyDict]
    /\ pending = <<>>
    /\ timed_out = {}
    /\ expert_results = [a \in Agents |-> EmptyDict]
    /\ final_result = NoResult
    /\ document \in Documents
    /\ triage = "-"
    /\ content_index = NoIndex
    /\ invocations = {}
    /\ task_at_cancel = [a \in Agents |-> "none"]

\* lines 62-66 and 99-127: without the document text (too little of it, or
\* the PDF extraction raised) the run ends with a failure status
Preprocess(raised) ==
    /\ stage = "start"
    /\ preprocessing_ok' = (~raised /\ TextObtained(document))
    /\ IF preprocessing_ok'
       THEN stage' = "stage1" /\ UNCHANGED final_result
       ELSE /\ stage' = "done"
            /\ final_result' = [status |-> "failed", stage |-> "preprocessing",
                                synthesized_knowledge |-> "-"]
    /\ UNCHANGED <<extract_vars, worker_vars, synth_vars, pdf_vars>>
    /\ UNCHANGED <<task_plan, base_tables, input_tables, task, enhanced_tables,
                   task_result, pending, timed_out, expert_results>>
    /\ UNCHANGED <<triage_vars, invocations, task_at_cancel>>

\* lines 129-152 and LibrarianAgent.process: the content index from the
\* reply or from the keyword heuristic, and the task plan made from it
Stage1Triage(reply) ==
    /\ stage = "stage1"
    /\ triage' = reply.kind
    /\ content_index' = generate_content_index(reply, document.chunks)
    /\ task_plan' = create_task_plan(content_index'.content_units)
    /\ invocations' = invocations \cup {Invocation("triage", Direct)}
    /\ stage' = "stage2"
    /\ UNCHANGED <<document, task_at_cancel>>
    /\ UNCHANGED <<extract_vars, worker_vars, synth_vars, pdf_vars>>
    /\ UNCHANGED <<preprocessing_ok, base_tables, input_tables, task,
                   enhanced_tables, task_result, pending, timed_out,
                   expert_results, final_result>>

\* lines 214-241: agents_to_run and the futures, in insertion order
Submitted(plan) == SelectSeq(SubmitOrder, LAMBDA a : a \in plan)

\* lines 157-171 and 209-241: the base tables, the shared analysis_input and
\* the submission of one task per agent type of the plan
Stage2Submit(n) ==
    /\ stage = "stage2"
    /\ base_tables' = Tables(n)
    /\ input_tables' = Tables(n)
    /\ task' = [a \in Agents |-> IF a \in task_plan THEN "start" ELSE "none"]
    /\ pending' = Submitted(task_plan)
    /\ invocations' = invocations \cup {Invocation("tables", Engine)}
    /\ stage' = "collect"
    /\ UNCHANGED <<triage_vars, task_at_cancel>>
    /\ UNCHANGED <<extract_vars, worker_vars, synth_vars, pdf_vars>>
    /\ UNCHANGED <<preprocessing_ok, task_plan, enhanced_tables, task_result,
                   timed_out, expert_results, final_result>>

\* MapAnalystAgent.process, lines 54-81: GeospatialData(features=...) takes
\* only SpatialFeature objects, _build_geojson hands it plain dicts, so any
\* feature makes the constructor raise and the agent return its failure dict
MapAnalystResult(n_features) ==
    IF n_features = 0 THEN AgentSuccess(0, 0) ELSE AgentFailed

MapAnalystProcess(n_features) ==
    /\ task["map_analyst"] = "start"
    /\ task' = [task EXCEPT !["map_analyst"] = "done"]
    /\ task_result' = [task_result EXCEPT
                          !["map_analyst"] = MapAnalystResult(n_features)]
    /\ invocations' = invocations \cup {Invocation("spatial", Direct)}
    /\ UNCHANGED <<triage_vars, task_at_cancel>>
    /\ UNCHANGED <<extract_vars, worker_vars, synth_vars, pdf_vars>>
    /\ UNCHANGED <<stage, preprocessing_ok, task_plan, base_tables, input_tables,
                   enhanced_tables, pending, timed_out, expert_results,
                   final_result>>

\* GeochemistAgent.process, lines 66-74: conclusions from the completion
\* service, enriched from data_tables
GeochemistExtract ==
    /\ task["geochemist"] = "start"
    /\ task' = [task EXCEPT !["geochemist"] = "mid"]
    /\ invocations' = invocations \cup {Invocation("geochemical", Direct)}
    /\ UNCHANGED <<triage_vars, task_at_cancel>>
    /\ UNCHANGED <<extract_vars, worker_vars, synth_vars, pdf_vars>>
    /\ UNCHANGED <<stage, preprocessing_ok, task_plan, base_tables, input_tables,
                   enhanced_tables, task_result, pending, timed_out,
                   expert_results, final_result>>

\* GeochemistAgent.process, lines 76-84 and _build_geochemical_knowledge:
\* raw_data_tables and data_tables_processed are read from data_tables
GeochemistBuild(n_conclusions) ==
    /\ task["geochemist"] = "mid"
    /\ task' = [task EXCEPT !["geochemist"] = "done"]
    /\ task_result' = [task_result EXCEPT
           !["geochemist"] = AgentSuccess(n_conclusions, Len(base_tables))]
    /\ UNCHANGED <<triage_vars, invocations, task_at_cancel>>
    /\ UNCHANGED <<extract_vars, worker_vars, synth_vars, pdf_vars>>
    /\ UNCHANGED <<stage, preprocessing_ok, task_plan, base_tables, input_tables,
                   enhanced_tables, pending, timed_out, expert_results,
                   final_result>>

\* DataAnalystAgent.process, lines 60-69: raw_tables is the list object of
\* analysis_input['data_tables']; with fewer than two tables the agent asks
\* the completion service for more
DataAnalystEnhance(extra) ==
    /\ task["data_analyst"] = "start"
    /\ task' = [task EXCEPT !["data_analyst"] = "mid"]
    /\ enhanced_tables' = IF Len(base_tables) < 2 THEN extra ELSE <<>>
    /\ invocations' = IF Len(base_tables) < 2
                      THEN invocations \cup {Invocation("tabular", Direct)}
                      ELSE invocations
    /\ UNCHANGED <<triage_vars, task_at_cancel>>
    /\ UNCHANGED <<extract_vars, worker_vars, synth_vars, pdf_vars>>
    /\ UNCHANGED <<stage, preprocessing_ok, task_plan, base_tables, input_tables,
                   task_result, pending, timed_out, expert_results, final_result>>

\* line 70: raw_tables.extend(enhanced_tables)
ExtendRawTables(raw_tables, extra) == raw_tables \o extra

\* DataAnalystAgent.process, lines 70-102
DataAnalystFinish ==
    /\ task["data_analyst"] = "mid"
    /\ base_tables' = ExtendRawTables(base_tables, enhanced_tables)
    /\ task' = [task EXCEPT !["data_analyst"] = "done"]
    /\ task_result' = [task_result EXCEPT
           !["data_analyst"] = AgentSuccess(Len(base_tables'), Len(base_tables'))]
    /\ UNCHANGED <<triage_vars, invocations, task_at_cancel>>
    /\ UNCHANGED <<extract_vars, worker_vars, synth_vars, pdf_vars>>
    /\ UNCHANGED <<stage, preprocessing_ok, task_plan, input_tables,
                   enhanced_tables, pending, timed_out, expert_results,
                   final_result>>

\* a call of the completion service inside an agent never returns
TaskHang(a) ==
    /\ task[a] \in {"start", "mid"}
    /\ task' = [task EXCEPT ![a] = "hung"]
    /\ UNCHANGED <<triage_vars, invocations, task_at_cancel>>
    /\ UNCHANGED <<extract_vars, worker_vars, synth_vars, pdf_vars>>
    /\ UNCHANGED <<stage, preprocessing_ok, task_plan, base_tables, input_tables,
                   enhanced_tables, task_result, pending, timed_out,
                   expert_results, final_result>>

Running(t, a) == t[a] \in {"start", "mid", "hung"}

\* lines 244-248: future.result returns the value of a finished task
CollectResult ==
    /\ stage = "collect"
    /\ pending # <<>>
    /\ task[Head(pending)] = "done"
    /\ expert_results' = [expert_results EXCEPT
                             ![Head(pending)] = task_result[Head(pending)]]
    /\ pending' = Tail(pending)
    /\ UNCHANGED <<triage_vars, invocations, task_at_cancel>>
    /\ UNCHANGED <<extract_vars, worker_vars, synth_vars, pdf_vars>>
    /\ UNCHANGED <<stage, preprocessing_ok, task_plan, base_tables, input_tables,
                   task, enhanced_tables, task_result, timed_out, final_result>>

\* lines 246, 249-251: the task is not finished 300 s after the loop began
\* to wait for it; the TimeoutError is recorded as a failed result
CollectTimeout ==
    /\ stage = "collect"
    /\ pending # <<>>
    /\ Running(task, Head(pending))
    /\ expert_results' = [expert_results EXCEPT ![Head(pending)] = CollectFailed]
    /\ timed_out' = timed_out \cup {Head(pending)}
    /\ pending' = Tail(pending)
    /\ UNCHANGED <<triage_vars, invocations, task_at_cancel>>
    /\ UNCHANGED <<extract_vars, worker_vars, synth_vars, pdf_vars>>
    /\ UNCHANGED <<stage, preprocessing_ok, task_plan, base_tables, input_tables,
                   task, enhanced_tables, task_result, final_result>>

\* executor.shutdown(wait=False)
ShutdownNoWait(t) == TRUE

\* line 223: leaving the with block calls executor.shutdown(wait=True),
\* which returns when every submitted task has finished
ExecutorJoined(t) == \A a \in Agents : ~Running(t, a)

\* lines 223, 253, 176-182 and 78: the executor is left, Phase 2 returns and
\* Phase 3 starts
ExecutorShutdown ==
    /\ stage = "collect"
    /\ pending = <<>>
    /\ ExecutorJoined(task)
    /\ stage' = "stage3"
    /\ UNCHANGED <<triage_vars, invocations, task_at_cancel>>
    /\ UNCHANGED <<extract_vars, worker_vars, synth_vars, pdf_vars>>
    /\ UNCHANGED <<preprocessing_ok, task_plan, base_tables, input_tables, task,
                   enhanced_tables, task_result, pending, timed_out,
                   expert_results, final_result>>

\* SynthesizerAgent.process, lines 73-111: the validation and the record
\* mapping call .get on geospatial_data (line 430), geochemical_knowledge
\* (line 592) and extraction_report (line 675); on the pydantic object of a
\* successful agent that raises AttributeError, and process returns
\* 'synthesized_knowledge': None
SynthesizerProcess(map_result, geochem_result, data_result) ==
    IF \/ map_result.data = "model"
       \/ geochem_result.data = "model"
       \/ data_result.data = "model"
    THEN "None"
    ELSE "SynthesizedKnowledge"

\* lines 255-287, 307-350: Phase 3 and the final result
Stage3Synthesis ==
    /\ stage = "stage3"
    /\ final_result' =
           [status |-> "success", stage |-> "-",
            synthesized_knowledge |->
                SynthesizerProcess(expert_results["map_analyst"],
                                   expert_results["geochemist"],
                                   expert_results["data_analyst"])]
    /\ invocations' = invocations \cup {Invocation("knowledge_graph", Engine),
                                         Invocation("metadata", Engine)}
    /\ stage' = "done"
    /\ UNCHANGED <<extract_vars, worker_vars, synth_vars, pdf_vars>>
    /\ UNCHANGED <<preprocessing_ok, task_plan, base_tables, input_tables, task,
                   enhanced_tables, task_result, pending, timed_out,
                   expert_results>>
    /\ UNCHANGED <<triage_vars, task_at_cancel>>

\* main_intelligent.py lines 236-238: the caller interrupts the run while
\* the main thread waits in the collection loop.  KeyboardInterrupt is not an
\* Exception, so the handler of line 249 does not catch it and the with
\* block of line 223 is left through executor.shutdown(wait=True)
Cancel ==
    /\ stage = "collect"
    /\ stage' = "interrupted"
    /\ task_at_cancel' = task
    /\ UNCHANGED <<extract_vars, worker_vars, synth_vars, pdf_vars>>
    /\ UNCHANGED <<preprocessing_ok, task_plan, base_tables, input_tables, task,
                   enhanced_tables, task_result, pending, timed_out,
                   expert_results, final_result>>
    /\ UNCHANGED <<triage_vars, invocations>>

\* the worker threads have been joined; the interrupt reaches main, which
\* returns 130
StopAfterCancel ==
    /\ stage = "interrupted"
    /\ ExecutorJoined(task)
    /\ stage' = "stopped"
    /\ final_result' = [status |-> "interrupted", stage |-> "-",
                        synthesized_knowledge |-> "-"]
    /\ UNCHANGED <<extract_vars, worker_vars, synth_vars, pdf_vars>>
    /\ UNCHANGED <<preprocessing_ok, task_plan, base_tables, input_tables, task,
                   enhanced_tables, task_result, pending, timed_out,
                   expert_results>>
    /\ UNCHANGED <<triage_vars, invocations, task_at_cancel>>

NextRun ==
    \/ \E raised \in BOOLEAN : Preprocess(raised)
    \/ \E reply \in TriageReplies : Stage1Triage(reply)
    \/ \E n \in 0..MaxBaseTables : Stage2Submit(n)
    \/ \E n \in 0..1 : MapAnalystProcess(n)
    \/ GeochemistExtract
    \/ \E n \in 0..1 : GeochemistBuild(n)
    \/ \E extra \in {<<>>, <<"enhanced">>} : DataAnalystEnhance(extra)
    \/ DataAnalystFinish
    \/ \E a \in Agents : TaskHang(a)
    \/ CollectResult
    \/ CollectTimeout
    \/ ExecutorShutdown
    \/ Stage3Synthesis


(***************************************************************************)
(* Concurrent calls of get_structured_data_with_retry by the threads of    *)
(* one process.  The calls share CACHE_FILE and nothing else: each call    *)
(* loads the whole file into its own dict and writes the whole dict back.  *)
(***************************************************************************)
Threads == {"t1", "t2"}

EmptyCache == [k \in Keys |-> Absent]

NoRequest == Request("-", <<>>, <<>>)

Worker(at, req, c, result) ==
    [pc |-> at, request |-> req, cache |-> c, result |-> result]

\* load_cache, lines 28-36: a file that does not parse gives {}
load_cache(file, ok) == IF ok THEN file ELSE EmptyCache

\* lines 95-108 in thread w: key, load_cache, lookup
WorkerLoad(w) ==
    /\ workers[w].pc = "start"
    /\ LET req == workers[w].request
           cache_key == generate_cache_key(req.base_prompt, req.input_data)
           loaded == load_cache(cache_file, file_ok)
       IN  workers' = [workers EXCEPT ![w] =
               IF CacheHit(req.model_class, loaded, cache_key)
               THEN Worker("done", req, loaded,
                           parse_obj(req.model_class, loaded[cache_key]))
               ELSE Worker("call", req, loaded, None)]
    /\ UNCHANGED <<extract_vars, pipeline_vars, file_ok>>
    /\ UNCHANGED <<synth_vars, pdf_vars>>

\* lines 110-153 in thread w: the loop ends with a valid reply, whose value
\* is put into the thread's dict (line 128), or without one
WorkerLoopEnds(w, text) ==
    /\ workers[w].pc = "call"
    /\ LET req == workers[w].request IN
       workers' = [workers EXCEPT ![w] =
           IF ReplyValid(req.model_class, text)
           THEN LET validated_data ==
                        parse_obj(req.model_class, JsonLoads(CleanText(text)))
                IN  Worker("open", req,
                           SaveOnSuccess(workers[w].cache, RequestKey(req),
                                         validated_data),
                           validated_data)
           ELSE Worker("done", req, workers[w].cache, None)]
    /\ UNCHANGED <<extract_vars, pipeline_vars, file_ok>>
    /\ UNCHANGED <<synth_vars, pdf_vars>>

\* save_cache, line 40: open(CACHE_FILE, 'w') truncates the file
WorkerOpen(w) ==
    /\ workers[w].pc = "open"
    /\ workers' = [workers EXCEPT ![w].pc = "dump"]
    /\ cache_file' = EmptyCache
    /\ file_ok' = FALSE
    /\ UNCHANGED <<pc, request, cache, current_input, attempt, sent, outcomes,
                   error_log, backoffs, log>>
    /\ UNCHANGED <<pipeline_vars, synth_vars, pdf_vars>>

\* save_cache, line 41: json.dump and the close of the file write the dict
\* from offset 0.  When another thread has written the file since this
\* thread truncated it, a shorter document leaves the tail of the other one
\* behind it; garbled says whether that happened.
WorkerDump(w, garbled) ==
    /\ workers[w].pc = "dump"
    /\ garbled => (file_ok /\ cache_file # workers[w].cache)
    /\ workers' = [workers EXCEPT ![w].pc = "done"]
    /\ cache_file' = IF garbled THEN EmptyCache ELSE workers[w].cache
    /\ file_ok' = ~garbled
    /\ UNCHANGED <<pc, request, cache, current_input, attempt, sent, outcomes,
                   error_log, backoffs, log>>
    /\ UNCHANGED <<pipeline_vars, synth_vars, pdf_vars>>

NextWorkers ==
    \/ \E w \in Threads : WorkerLoad(w)
    \/ \E w \in Threads : \E text \in Replies : WorkerLoopEnds(w, text)
    \/ \E w \in Threads : WorkerOpen(w)
    \/ \E w \in Threads : \E garbled \in BOOLEAN : WorkerDump(w, garbled)

(***************************************************************************)
(* process_single_pdf (document_processing/pdf_processor.py).              *)
(***************************************************************************)
\* a PDF: the chunks chunk_text_by_paragraph returns for its text, and the
\* paths extract_images_from_pdf returns
Pdf(chunks, image_paths) == [chunks |-> chunks, image_paths |-> image_paths]

NoPdf == Pdf(<<>>, <<>>)

NotProcessed == [status |-> "not returned"]

\* documents without text, with one paragraph, with two paragraphs and with
\* a paragraph that occurs twice; without images, with one and with two
Pdfs ==
    { Pdf(chunks, image_paths) :
        chunks \in { <<>>, << <<"x">> >>, << <<"x">>, <<"y">> >>,
                     << <<"x">>, <<"x">> >> },
        image_paths \in { <<>>, << <<"page1_img0.png">> >>,
                          << <<"page1_img0.png">>, <<"page2_img0.png">> >> } }

\* get_prompt_from_file: the text of the file prompts/<prompt_filename>; the
\* files are taken to have different texts
get_prompt_from_file(prompt_filename) == <<prompt_filename>>

\* text_chunks[:n]
FirstChunks(text_chunks, n) ==
    SubSeq(text_chunks, 1, IF Len(text_chunks) < n THEN Len(text_chunks) ELSE n)

RECURSIVE Join(_)
\* " ".join(items)
Join(items) ==
    IF items = <<>> THEN <<>>
    ELSE IF Len(items) = 1 THEN Head(items)
    ELSE Head(items) \o <<" ">> \o Join(Tail(items))

\* the requests the extraction functions of llm_extractor.py hand to
\* get_structured_data_with_retry
extract_metadata(text_chunk) ==
    Request("ExtractedMetadata", get_prompt_from_file("extract_metadata.md"),
            <<text_chunk>>)

extract_tables(text_chunk) ==
    Request("TableList", get_prompt_from_file("extract_table.md"),
            <<text_chunk>>)

extract_knowledge_graph(text_chunk) ==
    Request("KnowledgeGraph", get_prompt_from_file("extract_entities.md"),
            <<text_chunk>>)

analyze_map_image(image_path, context_text) ==
    Request("MapAnalysis", get_prompt_from_file("analyze_map.md"),
            <<context_text, image_path>>)

\* a table scan that looks at the first chunk only
FirstChunkOnly(text_chunks) == FirstChunks(text_chunks, 1)

\* line 104, for chunk in text_chunks: the chunks scanned for tables
TableChunks(text_chunks) == text_chunks

\* lines 94-116: the number of extraction calls made for the text
TextCalls(text_chunks) ==
    IF text_chunks = <<>> THEN 0 ELSE Len(TableChunks(text_chunks)) + 2

\* every request process_single_pdf can make for a document of Pdfs
PdfRequests ==
    UNION { { extract_metadata(pdf.chunks[i]) :
                  i \in 1..Len(pdf.chunks) }
            \cup { extract_tables(pdf.chunks[i]) :
                  i \in 1..Len(pdf.chunks) }
            \cup { extract_knowledge_graph(Join(FirstChunks(pdf.chunks, 5))),
                   analyze_map_image(<<"page1_img0.png">>,
                                     Join(FirstChunks(pdf.chunks, 3))) } :
            pdf \in Pdfs }

PdfKeys == { RequestKey(req) : req \in PdfRequests }

GoodTables == JsonObject("-", "-", "-", "list", "-")
GoodGraph == JsonObject("float", "-", "-", "-", "list")
GoodMap == JsonDoc("float", "-", "str")

\* replies of the completion service: a valid object of each schema, and a
\* text that is not JSON
PdfReplies ==
    { PlainReply(GoodMeta), PlainReply(GoodTables), FencedReply(GoodGraph),
      PlainReply(GoodMap), <<NotJson>> }

EmptyPdfCache == [k \in PdfKeys |-> Absent]

\* the cache file before the run: empty, or with the metadata of every
\* first chunk from an earlier run
InitialPdfCaches ==
    { EmptyPdfCache,
      [k \in PdfKeys |->
          IF \E pdf \in Pdfs :
                 /\ pdf.chunks # <<>>
                 /\ k = RequestKey(extract_metadata(pdf.chunks[1]))
          THEN GoodMeta ELSE Absent] }

InitPdf ==
    /\ pdf_document \in Pdfs
    /\ pdf_pc = "running"
    /\ structured_output = NotProcessed
    /\ cache_file \in InitialPdfCaches
    /\ pc = "idle"
    /\ request = None
    /\ cache = None
    /\ current_input = <<>>
    /\ attempt = 0
    /\ sent = <<>>
    /\ outcomes = <<>>
    /\ error_log = <<>>
    /\ backoffs = 0
    /\ log = <<>>

\* lines 92-99: metadata from the first chunk, if there is one
PdfExtractMetadata ==
    /\ pdf_pc = "running"
    /\ pdf_document.chunks # <<>>
    /\ Len(log) = 0
    /\ StartExtract(extract_metadata(pdf_document.chunks[1]))

\* lines 101-108: tables from every chunk, in order
PdfExtractTables ==
    /\ pdf_pc = "running"
    /\ \E i \in 1..Len(TableChunks(pdf_document.chunks)) :
           /\ Len(log) = i
           /\ StartExtract(extract_tables(TableChunks(pdf_document.chunks)[i]))

\* lines 110-118: the knowledge graph from the first five chunks, joined
PdfExtractKnowledgeGraph ==
    /\ pdf_pc = "running"
    /\ pdf_document.chunks # <<>>
    /\ Len(log) = TextCalls(pdf_document.chunks) - 1
    /\ StartExtract(extract_knowledge_graph(
                        Join(FirstChunks(pdf_document.chunks, 5))))

\* lines 120-133: the first image, with the first three chunks as context
PdfAnalyzeImage ==
    /\ pdf_pc = "running"
    /\ pdf_document.image_paths # <<>>
    /\ Len(log) = TextCalls(pdf_document.chunks)
    /\ StartExtract(analyze_map_image(pdf_document.image_paths[1],
                        Join(FirstChunks(pdf_document.chunks, 3))))

\* the results of the calls for a schema that returned a value, as dicts
ResultDicts(model_class) ==
    LET returned == SelectSeq(log, LAMBDA r : /\ r.request.model_class = model_class
                                               /\ r.result # None)
    IN  [i \in 1..Len(returned) |-> dict(returned[i].result)]

\* X.dict() if X else None
DictOrNone(results) == IF results = <<>> THEN None ELSE results[1]

\* lines 135-146: the dict that is returned
PdfAssemble ==
    /\ pdf_pc = "running"
    /\ pc = "idle"
    /\ Len(log) = TextCalls(pdf_document.chunks)
                  + (IF pdf_document.image_paths # <<>> THEN 1 ELSE 0)
    /\ pdf_pc' = "done"
    /\ structured_output' =
           [metadata |-> DictOrNone(ResultDicts("ExtractedMetadata")),
            tables |-> ResultDicts("TableList"),
            knowledge_graph |-> DictOrNone(ResultDicts("KnowledgeGraph")),
            image_analyses |-> ResultDicts("MapAnalysis")]
    /\ UNCHANGED pdf_document
    /\ UNCHANGED <<extract_vars, pipeline_vars, worker_vars, synth_vars>>

\* the steps of get_structured_data_with_retry inside the run
PdfAttemptReply == \E text \in PdfReplies : pdf_pc = "running" /\ AttemptReply(text)
PdfAttemptException == pdf_pc = "running" /\ AttemptException
PdfReturnNone == pdf_pc = "running" /\ ReturnNone

NextPdf ==
    \/ PdfExtractMetadata
    \/ PdfExtractTables
    \/ PdfExtractKnowledgeGraph
    \/ PdfAnalyzeImage
    \/ PdfAttemptReply
    \/ PdfAttemptException
    \/ PdfReturnNone
    \/ PdfAssemble

(***************************************************************************)
(* The Synthesizer (agents/synthesizer_agent.py).  A name is a sequence of *)
(* characters.  A confidence score is a number of 900ths, so that the      *)
(* deductions 0.3 and 0.4, the thirds of the completeness check and the    *)
(* mean of three scores are all exact.                                     *)
(***************************************************************************)
\* the float num/den
Score(num, den) == (900 * num) \div den

Max(a, b) == IF a > b THEN a ELSE b

\* str.lower on one character
LowerChar(c) ==
    CASE c = "Z" -> "z"
      [] c = "B" -> "b"
      [] c = "U" -> "u"
      [] c = "L" -> "l"
      [] OTHER -> c

\* name.lower()
lower(name) == [i \in 1..Len(name) |-> LowerChar(name[i])]

\* set(s.split()): the maximal runs of characters other than whitespace;
\* word is the run being read
RECURSIVE split(_, _)
split(s, word) ==
    IF s = <<>> THEN (IF word = <<>> THEN {} ELSE {word})
    ELSE IF Head(s) = " "
    THEN (IF word = <<>> THEN {} ELSE {word}) \cup split(Tail(s), <<>>)
    ELSE split(Tail(s), Append(word, Head(s)))

\* two nodes are related when their names are the same string
NamesAreEqual(node1, node2) == node1.name = node2.name

\* _nodes_are_related, lines 379-389
nodes_are_related(node1, node2) ==
    split(lower(node1.name), <<>>) \cap split(lower(node2.name), <<>>) # {}

\* properties.get('name', 'Unnamed Location')
NoName == <<>>
UnnamedLocation ==
    <<"U", "n", "n", "a", "m", "e", "d", " ",
      "L", "o", "c", "a", "t", "i", "o", "n">>

\* A feature dict of a GeoJSON FeatureCollection.  coordinates: "valid",
\* "zero" ([0.0, 0.0]) or "missing".
Feature(name, coordinates) == [name |-> name, coordinates |-> coordinates]

\* a GeochemicalConclusion object (an id is a tuple, as the uuid4 values
\* of the model are)
Conclusion(conclusion_id, rock_type, geochemical_affinity, n_evidence) ==
    [conclusion_id |-> conclusion_id, rock_type |-> rock_type,
     geochemical_affinity |-> geochemical_affinity, n_evidence |-> n_evidence]

\* a StandardizedTable object
Table(table_id, table_name, columns, n_rows) ==
    [table_id |-> table_id, table_name |-> table_name, columns |-> columns,
     n_rows |-> n_rows]

\* The collection an expert result carries under 'geospatial_data',
\* 'geochemical_knowledge' or 'extraction_report'.  kind: "None" (the agent
\* failed, or its result is the {} default), "dict" (a plain dict) or
\* "model" (the pydantic object the agent's process returns on success).
Collection(kind, items) == [kind |-> kind, items |-> items]

NoCollection == Collection("None", <<>>)

\* an expert result: the collection and its count (feature_count,
\* conclusions_count, standardized_tables_count: the agents set it to the
\* length of the collection)
ExpertResult(collection) ==
    [collection |-> collection, count |-> Len(collection.items)]

\* if x: a dict is true unless it is {}, a pydantic object is always true
Truthy(collection) == collection.kind # "None"

\* x.get(...) on a pydantic object raises AttributeError
GetRaises(collection) == collection.kind = "model"

MapResults ==
    { ExpertResult(NoCollection),
      ExpertResult(Collection("dict", <<>>)),
      ExpertResult(Collection("model", <<>>)),
      ExpertResult(Collection("dict", << Feature(<<"Z">>, "valid") >>)),
      ExpertResult(Collection("dict", << Feature(<<"Z", "b">>, "zero") >>)),
      ExpertResult(Collection("dict", << Feature(<<"b", " ", "-">>, "valid"),
                                         Feature(NoName, "missing") >>)) }

GeochemResults ==
    { ExpertResult(NoCollection),
      ExpertResult(Collection("dict", <<>>)),
      ExpertResult(Collection("dict",
          << Conclusion(<<"c1">>, <<"z">>, <<"t">>, 1) >>)),
      ExpertResult(Collection("dict",
          << Conclusion(<<"c1">>, <<"B">>, <<"z", "b">>, 0),
             Conclusion(<<"c2">>, <<"z">>, <<"t">>, 2) >>)),
      ExpertResult(Collection("model",
          << Conclusion(<<"c1">>, <<"z">>, <<"t">>, 1) >>)) }

DataResults ==
    { ExpertResult(NoCollection),
      ExpertResult(Collection("dict", <<>>)),
      ExpertResult(Collection("dict",
          << Table(<<"table_1">>, <<"z">>, {"Depth", "Lithology"}, 2) >>)),
      ExpertResult(Collection("dict",
          << Table(<<"table_1">>, <<"t">>, {"Depth_From", "Au_ppm"}, 1) >>)),
      ExpertResult(Collection("model",
          << Table(<<"table_1">>, <<"z">>, {"Hole"}, 1) >>)) }

\* original_knowledge_graph: the names of its entities
OriginalGraphs == { <<>>, << <<"z">> >> }

SynthInput(map_result, geochem_result, data_result, original_kg) ==
    [map_analyst_result |-> map_result, geochemist_result |-> geochem_result,
     data_analyst_result |-> data_result,
     original_knowledge_graph |-> original_kg]

SynthInputs ==
    { SynthInput(m, g, d, kg) : m \in MapResults, g \in GeochemResults,
                                d \in DataResults, kg \in OriginalGraphs }

Node(id, type, name) == [id |-> id, type |-> type, name |-> name]

\* _extract_spatial_nodes, lines 237-265: one node per feature that is a
\* dict; the features of a GeospatialData object are SpatialFeature objects
extract_spatial_nodes(geospatial_data) ==
    IF geospatial_data.kind = "dict"
    THEN [i \in 1..Len(geospatial_data.items) |->
             Node(<<"uuid4", "spatial", i>>, "spatial_feature",
                  IF geospatial_data.items[i].name = NoName
                  THEN UnnamedLocation ELSE geospatial_data.items[i].name)]
    ELSE <<>>

\* _extract_geochemical_nodes, lines 267-300: the name of the node is
\* rock_type, " - ", geochemical_affinity
extract_geochemical_nodes(geochem_knowledge) ==
    [i \in 1..Len(geochem_knowledge.items) |->
        Node(geochem_knowledge.items[i].conclusion_id, "geochemical_conclusion",
             geochem_knowledge.items[i].rock_type \o <<" ", "-", " ">>
                 \o geochem_knowledge.items[i].geochemical_affinity)]

\* _extract_data_nodes, lines 302-329
extract_data_nodes(extraction_report) ==
    [i \in 1..Len(extraction_report.items) |->
        Node(extraction_report.items[i].table_id, "data_table",
             extraction_report.items[i].table_name)]

\* _extract_text_nodes, lines 331-350
extract_text_nodes(original_kg) ==
    [i \in 1..Len(original_kg) |->
        Node(<<"uuid4", "text", i>>, "text_entity", original_kg[i])]

Relationship(source_node, target_node) ==
    [source_node |-> source_node, target_node |-> target_node,
     relationship_type |-> "spatial_geochemical_association"]

\* lines 360-361: the pairs the two loops visit, in order
NodePairs(spatial_nodes, geochem_nodes) ==
    [k \in 1..(Len(spatial_nodes) * Len(geochem_nodes)) |->
        <<spatial_nodes[((k - 1) \div Len(geochem_nodes)) + 1],
          geochem_nodes[((k - 1) % Len(geochem_nodes)) + 1]>>]

\* _establish_node_relationships, lines 352-377
establish_node_relationships(nodes) ==
    LET spatial_nodes == SelectSeq(nodes, LAMBDA n : n.type = "spatial_feature")
        geochem_nodes ==
            SelectSeq(nodes, LAMBDA n : n.type = "geochemical_conclusion")
        related == SelectSeq(NodePairs(spatial_nodes, geochem_nodes),
                             LAMBDA p : nodes_are_related(p[1], p[2]))
    IN  [k \in 1..Len(related) |-> Relationship(related[k][1].id, related[k][2].id)]

\* _build_intermediate_knowledge_graph, lines 197-235
build_intermediate_knowledge_graph(map_result, geochem_result, data_result, original_kg) ==
    LET nodes ==
            (IF Truthy(map_result.collection)
             THEN extract_spatial_nodes(map_result.collection) ELSE <<>>)
            \o (IF Truthy(geochem_result.collection)
                THEN extract_geochemical_nodes(geochem_result.collection)
                ELSE <<>>)
            \o (IF Truthy(data_result.collection)
                THEN extract_data_nodes(data_result.collection) ELSE <<>>)
            \o extract_text_nodes(original_kg)
    IN  [nodes |-> nodes, relationships |-> establish_node_relationships(nodes)]

ValidationResult(is_valid, confidence_score, issues, suggestions) ==
    [is_valid |-> is_valid, confidence_score |-> confidence_score,
     issues |-> issues, suggestions |-> suggestions]

\* line 436: not coords or coords == [0.0, 0.0]
InvalidCoordinates(feature) == feature.coordinates \in {"missing", "zero"}

\* _validate_spatial_consistency, lines 412-451, for a geospatial_data on
\* which line 430 does not raise
validate_spatial_consistency(map_result) ==
    LET features == map_result.collection.items
        total_features == Len(features)
        invalid_coords ==
            Cardinality({ i \in 1..total_features : InvalidCoordinates(features[i]) })
        no_features == map_result.count < 1
        bad_coords == Truthy(map_result.collection) /\ invalid_coords > 0
        issues ==
            (IF no_features THEN <<"No spatial features extracted">> ELSE <<>>)
            \o (IF bad_coords THEN <<"features have invalid coordinates">>
                ELSE <<>>)
        suggestions ==
            (IF no_features
             THEN <<"Consider improving map analysis or using alternative extraction methods">>
             ELSE <<>>)
            \o (IF bad_coords
                THEN <<"Review coordinate extraction logic and source data quality">>
                ELSE <<>>)
        confidence ==
            Score(1, 1)
            - (IF no_features THEN Score(3, 10) ELSE 0)
            - (IF bad_coords
               THEN (invalid_coords * Score(4, 10)) \div total_features ELSE 0)
    IN  ValidationResult(Len(issues) = 0, Max(0, confidence), issues, suggestions)

\* line 476: is_valid=len(issues) < 2
GeochemicalIsValid(issues) == Len(issues) < 2

\* _validate_geochemical_consistency, lines 453-480
validate_geochemical_consistency(geochem_result, data_result) ==
    LET conclusions_count == geochem_result.count
        tables_count == data_result.count
        no_conclusions == conclusions_count < 1
        unsupported == conclusions_count > 0 /\ tables_count = 0
        issues ==
            (IF no_conclusions THEN <<"No geochemical conclusions extracted">>
             ELSE <<>>)
            \o (IF unsupported
                THEN <<"Geochemical conclusions found but no supporting data tables">>
                ELSE <<>>)
        suggestions ==
            (IF no_conclusions
             THEN <<"Ensure geochemical analysis texts are properly identified">>
             ELSE <<>>)
            \o (IF unsupported
                THEN <<"Improve table extraction to support geochemical conclusions">>
                ELSE <<>>)
        confidence ==
            Score(1, 1)
            - (IF no_conclusions THEN Score(4, 10) ELSE 0)
            - (IF unsupported THEN Score(3, 10) ELSE 0)
    IN  ValidationResult(GeochemicalIsValid(issues), Max(0, confidence),
                         issues, suggestions)

\* a threshold of two thirds
TwoThirds == Score(2, 3)

\* lines 496 and 502: the literal 0.67
CompletenessThreshold == Score(67, 100)

\* _validate_data_completeness, lines 482-506
validate_data_completeness(map_result, geochem_result, data_result) ==
    LET has_spatial == map_result.count > 0
        has_geochem == geochem_result.count > 0
        has_tables == data_result.count > 0
        present == Cardinality({ c \in {"spatial", "geochem", "tables"} :
                                    \/ c = "spatial" /\ has_spatial
                                    \/ c = "geochem" /\ has_geochem
                                    \/ c = "tables" /\ has_tables })
        data_completeness == Score(present, 3)
        low == data_completeness < CompletenessThreshold
    IN  ValidationResult(data_completeness >= CompletenessThreshold,
                         IF low THEN data_completeness ELSE Score(1, 1),
                         IF low THEN <<"Low data completeness">> ELSE <<>>,
                         IF low
                         THEN <<"Ensure all types of geological data are properly extracted">>
                         ELSE <<>>)

CheckNames ==
    {"spatial_consistency", "geochemical_consistency", "data_completeness"}

\* _cross_validate_knowledge, lines 391-410, when no check raises
cross_validate_knowledge(map_result, geochem_result, data_result) ==
    [name \in CheckNames |->
        CASE name = "spatial_consistency" ->
                 validate_spatial_consistency(map_result)
          [] name = "geochemical_consistency" ->
                 validate_geochemical_consistency(geochem_result, data_result)
          [] name = "data_completeness" ->
                 validate_data_completeness(map_result, geochem_result,
                                            data_result)]

\* lines 425-430: geospatial_data.get('features', []) on a true value
CrossValidateRaises(map_result) ==
    Truthy(map_result.collection) /\ GetRaises(map_result.collection)

\* the value of a foreign key that refers to no record
NullId == <<"None">>

DatabaseRecord(table_name, record_id, location_id, relationships) ==
    [table_name |-> table_name, record_id |-> record_id,
     location_id |-> location_id, relationships |-> relationships]

\* _create_location_records, lines 546-581
create_location_records(map_result) ==
    IF ~Truthy(map_result.collection) THEN <<>>
    ELSE [i \in 1..Len(map_result.collection.items) |->
             DatabaseRecord("locations", <<"uuid4", "location", i>>,
                            <<"uuid4", "location", i>>, <<>>)]

\* lines 596-599 and 618-622: the first location record, or None
AssociatedLocation(location_records) ==
    IF location_records # <<>> THEN location_records[1].record_id ELSE NullId

ForeignKey(table_name, referenced_id) ==
    [table |-> table_name, referenced_id |-> referenced_id]

\* _create_element_records, lines 633-664
create_element_records(conclusion, geochemistry_id) ==
    [e \in 1..conclusion.n_evidence |->
        DatabaseRecord("geochemical_elements",
                       <<"uuid4", "element", geochemistry_id, e>>, NullId,
                       << ForeignKey("geochemistry", geochemistry_id) >>)]

\* _create_geochemistry_records, lines 583-631, when line 592 does not
\* raise: one record per conclusion, followed by its element records
create_geochemistry_records(geochem_result, location_records) ==
    IF ~Truthy(geochem_result.collection) THEN <<>>
    ELSE LET conclusions == geochem_result.collection.items
             associated_location_id == AssociatedLocation(location_records)
         IN  Concat([i \in 1..Len(conclusions) |->
                 << DatabaseRecord("geochemistry",
                        <<"uuid4", "geochemistry", conclusions[i].conclusion_id>>,
                        associated_location_id,
                        IF associated_location_id # NullId
                        THEN << ForeignKey("locations", associated_location_id) >>
                        ELSE <<>>) >>
                 \o create_element_records(conclusions[i],
                        <<"uuid4", "geochemistry", conclusions[i].conclusion_id>>)])

\* col.lower() for the column names of the model
LowerColumn(col) ==
    CASE col = "Depth" -> "depth"
      [] col = "Lithology" -> "lithology"
      [] col = "Hole" -> "hole"
      [] col = "Depth_From" -> "depth_from"
      [] OTHER -> col

\* lines 680-682
is_drilling_table(table) ==
    \E col \in table.columns :
        LowerColumn(col) \in {"depth", "hole", "drill", "lithology"}

\* line 684: if is_drilling_table and location_records
EmitsDrillingRows(table, location_records) ==
    is_drilling_table(table) /\ location_records # <<>>

\* _create_drilling_records, lines 666-718, when line 675 does not raise
create_drilling_records(data_result, location_records) ==
    IF ~Truthy(data_result.collection) THEN <<>>
    ELSE LET tables == data_result.collection.items IN
         Concat([i \in 1..Len(tables) |->
             IF EmitsDrillingRows(tables[i], location_records)
             THEN [r \in 1..tables[i].n_rows |->
                      DatabaseRecord("drilling_data",
                          <<"uuid4", "drill_hole", tables[i].table_id, r>>,
                          AssociatedLocation(location_records),
                          << ForeignKey("locations",
                                        AssociatedLocation(location_records)) >>)]
             ELSE <<>>])

\* _map_to_database_schema, lines 528-544, when nothing raises
map_to_database_schema(map_result, geochem_result, data_result) ==
    LET spatial_records == create_location_records(map_result) IN
    spatial_records
    \o create_geochemistry_records(geochem_result, spatial_records)
    \o create_drilling_records(data_result, spatial_records)

\* lines 588-592 and 671-675: .get on a true geochemical_knowledge or
\* extraction_report
MapToDatabaseRaises(geochem_result, data_result) ==
    \/ Truthy(geochem_result.collection) /\ GetRaises(geochem_result.collection)
    \/ Truthy(data_result.collection) /\ GetRaises(data_result.collection)

\* _calculate_overall_confidence, lines 720-727
calculate_overall_confidence(results) ==
    (results["spatial_consistency"].confidence_score
     + results["geochemical_consistency"].confidence_score
     + results["data_completeness"].confidence_score) \div Cardinality(CheckNames)

\* what process assembles at lines 94-95
SynthesizedKnowledge(input_data, kg, results, records) ==
    [kind |-> "SynthesizedKnowledge",
     spatial_features |-> input_data.map_analyst_result,
     geochemical_knowledge |-> input_data.geochemist_result,
     structured_data |-> input_data.data_analyst_result,
     knowledge_graph |-> kg,
     database_records |-> records,
     validation_results |-> results]

\* lines 97-102
SynthSuccess(synthesized_knowledge) ==
    [synthesized_knowledge |-> synthesized_knowledge,
     database_records_count |-> Len(synthesized_knowledge.database_records),
     processing_status |-> "success",
     overall_confidence |->
         calculate_overall_confidence(synthesized_knowledge.validation_results)]

\* lines 104-111
SynthFailed(error) ==
    [synthesized_knowledge |-> None, database_records_count |-> 0,
     processing_status |-> "failed", error |-> error]

NotReturned == [processing_status |-> "not returned"]

NoGraph == [nodes |-> <<>>, relationships |-> <<>>]
NoValidation == [name \in CheckNames |-> ValidationResult(FALSE, 0, <<>>, <<>>)]

\* SynthesizerAgent.process, lines 55-111, as one function of its input
process(input_data) ==
    LET m == input_data.map_analyst_result
        g == input_data.geochemist_result
        d == input_data.data_analyst_result
    IN  IF CrossValidateRaises(m) \/ MapToDatabaseRaises(g, d)
        THEN SynthFailed("AttributeError")
        ELSE SynthSuccess(SynthesizedKnowledge(input_data,
                 build_intermediate_knowledge_graph(m, g, d,
                     input_data.original_knowledge_graph),
                 cross_validate_knowledge(m, g, d),
                 map_to_database_schema(m, g, d)))

\* knowledge_synthesis_pipeline.py line 281:
\* synthesis_result.get('overall_confidence', 0.0)
OverallConfidence(synthesis_result) ==
    IF synthesis_result.processing_status = "success"
    THEN synthesis_result.overall_confidence ELSE Score(0, 1)

InitSynth ==
    /\ synth_input \in SynthInputs
    /\ synth_pc = "start"
    /\ intermediate_kg = NoGraph
    /\ validation_results = NoValidation
    /\ database_records = <<>>
    /\ synth_output = NotReturned

\* lines 74-77
BuildIntermediateKG ==
    /\ synth_pc = "start"
    /\ intermediate_kg' =
           build_intermediate_knowledge_graph(synth_input.map_analyst_result,
               synth_input.geochemist_result, synth_input.data_analyst_result,
               synth_input.original_knowledge_graph)
    /\ synth_pc' = "validate"
    /\ UNCHANGED <<synth_input, validation_results, database_records,
                   synth_output>>
    /\ UNCHANGED <<extract_vars, pipeline_vars, worker_vars, pdf_vars>>

\* lines 79-82, and 104-111 when the spatial check raises
CrossValidate ==
    /\ synth_pc = "validate"
    /\ IF CrossValidateRaises(synth_input.map_analyst_result)
       THEN /\ synth_output' = SynthFailed("AttributeError")
            /\ synth_pc' = "done"
            /\ UNCHANGED validation_results
       ELSE /\ validation_results' =
                   cross_validate_knowledge(synth_input.map_analyst_result,
                       synth_input.geochemist_result,
                       synth_input.data_analyst_result)
            /\ synth_pc' = "map"
            /\ UNCHANGED synth_output
    /\ UNCHANGED <<synth_input, intermediate_kg, database_records>>
    /\ UNCHANGED <<extract_vars, pipeline_vars, worker_vars, pdf_vars>>

\* lines 84-91, and 104-111 when the record mapping raises
MapToDatabase ==
    /\ synth_pc = "map"
    /\ IF MapToDatabaseRaises(synth_input.geochemist_result,
                              synth_input.data_analyst_result)
       THEN /\ synth_output' = SynthFailed("AttributeError")
            /\ synth_pc' = "done"
            /\ UNCHANGED database_records
       ELSE /\ database_records' =
                   map_to_database_schema(synth_input.map_analyst_result,
                       synth_input.geochemist_result,
                       synth_input.data_analyst_result)
            /\ synth_pc' = "return"
            /\ UNCHANGED synth_output
    /\ UNCHANGED <<synth_input, intermediate_kg, validation_results>>
    /\ UNCHANGED <<extract_vars, pipeline_vars, worker_vars, pdf_vars>>

\* lines 93-102
SynthReturn ==
    /\ synth_pc = "return"
    /\ synth_output' =
           SynthSuccess(SynthesizedKnowledge(synth_input, intermediate_kg,
                                             validation_results,
                                             database_records))
    /\ synth_pc' = "done"
    /\ UNCHANGED <<synth_input, intermediate_kg, validation_results,
                   database_records>>
    /\ UNCHANGED <<extract_vars, pipeline_vars, worker_vars, pdf_vars>>

NextSynth ==
    \/ BuildIntermediateKG
    \/ CrossValidate
    \/ MapToDatabase
    \/ SynthReturn

(***************************************************************************)
(* Specifications.                                                         *)
(***************************************************************************)
\* the pipeline does not run
PipelineOff ==
    /\ stage = "off"
    /\ preprocessing_ok = FALSE
    /\ task_plan = {}
    /\ base_tables = <<>>
    /\ input_tables = <<>>
    /\ task = [a \in Agents |-> "none"]
    /\ enhanced_tables = <<>>
    /\ task_result = [a \in Agents |-> EmptyDict]
    /\ pending = <<>>
    /\ timed_out = {}
    /\ expert_results = [a \in Agents |-> EmptyDict]
    /\ final_result = NoResult
    /\ document = EmptyDoc
    /\ triage = "-"
    /\ content_index = NoIndex
    /\ invocations = {}
    /\ task_at_cancel = [a \in Agents |-> "none"]

\* no extract call is made
ExtractOff ==
    /\ cache_file = [k \in Keys |-> Absent]
    /\ pc = "off"
    /\ request = None
    /\ cache = None
    /\ current_input = <<>>
    /\ attempt = 0
    /\ sent = <<>>
    /\ outcomes = <<>>
    /\ error_log = <<>>
    /\ backoffs = 0
    /\ log = <<>>

\* no concurrent call is made
WorkersOff ==
    /\ workers = [w \in Threads |-> Worker("off", NoRequest, EmptyCache, None)]
    /\ file_ok = TRUE

\* the Synthesizer is not called
SynthOff ==
    /\ synth_input = SynthInput(ExpertResult(NoCollection),
                                ExpertResult(NoCollection),
                                ExpertResult(NoCollection), <<>>)
    /\ synth_pc = "off"
    /\ intermediate_kg = NoGraph
    /\ validation_results = NoValidation
    /\ database_records = <<>>
    /\ synth_output = NotReturned

\* process_single_pdf is not called
PdfOff ==
    /\ pdf_document = NoPdf
    /\ pdf_pc = "off"
    /\ structured_output = NotProcessed

\* sequential calls of get_structured_data_with_retry
Init == InitExtract /\ PipelineOff /\ WorkersOff /\ SynthOff /\ PdfOff
Spec == Init /\ [][Next]_vars

\* one run of process_document
InitRun == InitPipeline /\ ExtractOff /\ WorkersOff /\ SynthOff /\ PdfOff
SpecPipeline == InitRun /\ [][NextRun]_vars

\* every thread that can take a step eventually takes one
FairSpecPipeline == SpecPipeline /\ WF_vars(NextRun)

\* concurrent calls of get_structured_data_with_retry
InitWorkers ==
    /\ cache_file \in InitialCaches
    /\ pc = "off"
    /\ request = None
    /\ cache = None
    /\ current_input = <<>>
    /\ attempt = 0
    /\ sent = <<>>
    /\ outcomes = <<>>
    /\ error_log = <<>>
    /\ backoffs = 0
    /\ log = <<>>
    /\ PipelineOff
    /\ workers \in [Threads -> { Worker("start", req, EmptyCache, None) :
                                      req \in Requests }]
    /\ file_ok = TRUE
    /\ SynthOff
    /\ PdfOff

SpecWorkers == InitWorkers /\ [][NextWorkers]_vars

\* one run of process_document that the caller may interrupt
NextCancel ==
    \/ NextRun
    \/ Cancel
    \/ StopAfterCancel

SpecCancel == InitRun /\ [][NextCancel]_vars

\* one call of SynthesizerAgent.process
InitSynthesis == InitSynth /\ ExtractOff /\ PipelineOff /\ WorkersOff /\ PdfOff
SpecSynth == InitSynthesis /\ [][NextSynth]_vars

\* one call of process_single_pdf
InitPdfRun == InitPdf /\ PipelineOff /\ WorkersOff /\ SynthOff
SpecPdf == InitPdfRun /\ [][NextPdf]_vars

(***************************************************************************)
(* Properties of the extraction engine (specification Spec).               *)
(***************************************************************************)
Last(seq) == seq[Len(seq)]

\* the same schema, base prompt and context payloads
SameRequest(r1, r2) ==
    /\ r1.model_class = r2.model_class
    /\ r1.base_prompt = r2.base_prompt
    /\ Tail(r1.input_data) = Tail(r2.input_data)

\* C1: every value a call returned as success, from the cache or from the
\* completion service on any attempt, is an instance of the schema passed to
\* that call.
C1_SchemaGate ==
    \A i \in 1..Len(log) :
        log[i].result # None =>
            Conforms(log[i].request.model_class, log[i].result)

\* one success came from the cache and one from a retry, and an invalid
\* cache entry had to be refused
C1_Witness ==
    /\ \E i \in 1..Len(log) : log[i].calls = 0 /\ log[i].result # None
    /\ \E i \in 1..Len(log) : log[i].calls >= 2 /\ log[i].result # None
    /\ \E i \in 1..Len(log) :
           /\ log[i].calls > 0
           /\ log[i].request.model_class = "MapAnalysis"
           /\ RequestKey(log[i].request) = <<"a", "b", "c">>

\* C2 as stated: two consecutive calls with identical schema, base prompt and
\* context issue at most one completion-service call in total, and the
\* second returns the value of the first from the cache.
C2_AtMostOneCall ==
    \A i \in 1..(Len(log) - 1) :
        SameRequest(log[i].request, log[i + 1].request) =>
            /\ log[i].calls + log[i + 1].calls <= 1
            /\ log[i + 1].calls = 0
            /\ log[i + 1].result = log[i].result

\* C2 amended: when the first of two consecutive identical calls returns
\* success, the second issues no completion-service call and returns the
\* identical value from the cache; the two calls together issue at most
\* max_retries calls.
C2_CacheIdempotence ==
    \A i \in 1..(Len(log) - 1) :
        (/\ SameRequest(log[i].request, log[i + 1].request)
         /\ log[i].result # None) =>
            /\ log[i + 1].calls = 0
            /\ log[i + 1].result = log[i].result
            /\ log[i].calls + log[i + 1].calls <= max_retries

\* the first call needed every attempt, the second is served from the cache
C2_Witness ==
    \E i \in 1..(Len(log) - 1) :
        /\ SameRequest(log[i].request, log[i + 1].request)
        /\ log[i].result # None
        /\ log[i].calls = max_retries

\* no call between the i-th and the j-th wrote the entry of this key
NoWriteBetween(i, j) ==
    \A k \in (i + 1)..(j - 1) :
        ~ (/\ RequestKey(log[k].request) = RequestKey(log[i].request)
           /\ log[k].calls > 0
           /\ log[k].result # None)

\* C3: after a call returned success, every later call with the same schema,
\* base prompt and context payloads, the cache entry not being rewritten in
\* between, makes no completion-service call and returns an equal value; the
\* counts are 1 then 0 when the first call succeeded on its first attempt.
C3_LaterCallsHitCache ==
    \A i \in 1..Len(log) : \A j \in (i + 1)..Len(log) :
        (/\ SameRequest(log[i].request, log[j].request)
         /\ log[i].result # None
         /\ NoWriteBetween(i, j)) =>
            /\ log[j].calls = 0
            /\ log[j].result = log[i].result
            /\ (log[i].calls = 1 => <<log[i].calls, log[j].calls>> = <<1, 0>>)

\* a first-attempt success, then a successful call for another key, then the
\* first request again
C3_Witness ==
    /\ Len(log) = 3
    /\ SameRequest(log[1].request, log[3].request)
    /\ log[1].calls = 1 /\ log[1].result # None
    /\ RequestKey(log[2].request) # RequestKey(log[1].request)
    /\ log[2].calls > 0 /\ log[2].result # None

\* C4: when the cache holds no valid entry for the key and every reply is an
\* invalid payload, the call makes exactly max_retries completion-service
\* calls and returns None.
C4_RetryConvergenceBound ==
    (/\ pc = "idle"
     /\ log # <<>>
     /\ ~CacheHit(Last(log).request.model_class, cache_file,
                  RequestKey(Last(log).request))
     /\ \A i \in 1..Len(outcomes) : outcomes[i] = "invalid") =>
        /\ Last(log).result = None
        /\ Last(log).calls = max_retries
        /\ Len(outcomes) = max_retries

\* three invalid replies, with a stale invalid entry in the cache
C4_Witness ==
    /\ pc = "idle"
    /\ log # <<>>
    /\ Last(log).result = None
    /\ outcomes = <<"invalid", "invalid", "invalid">>
    /\ cache_file[RequestKey(Last(log).request)] = BadDoc

C5_Budget ==
    /\ attempt <= max_retries
    /\ Len(sent) <= max_retries
    /\ \A i \in 1..Len(log) :
           /\ log[i].calls <= max_retries
           /\ \/ log[i].result = None
              \/ Conforms(log[i].request.model_class, log[i].result)

\* C5: whatever the mix of transport errors and invalid replies, a call
\* issues at most max_retries completion-service calls, each failed attempt
\* of either kind uses up one of them (so the loop ends), and the call
\* returns a validated value or None.
C5_BoundedRetries ==
    /\ []C5_Budget
    /\ [][(pc = "loop" /\ pc' = "loop") =>
             (attempt' = attempt + 1 /\ Len(sent') = Len(sent) + 1)]_vars

\* a call that met an exception, an invalid reply and another exception
C5_Witness ==
    /\ pc = "idle"
    /\ log # <<>>
    /\ Last(log).result = None
    /\ outcomes = <<"exception", "invalid", "exception">>

\* the running or last call that reached the loop found, for its key, a
\* cache entry that does not validate against its schema
StaleEntryLoaded ==
    /\ request # None
    /\ cache[RequestKey(request)] # Absent
    /\ ValidationErrors(request.model_class, cache[RequestKey(request)]) # ""

\* the last call that returned is the one that reached the loop
LastCallLooped ==
    /\ pc = "idle"
    /\ log # <<>>
    /\ Last(log).calls > 0

\* C14: a call that finds an invalid cache entry for its key starts the loop
\* as on a miss: attempt 0, the request as passed in, max_retries attempts
\* before it gives up; when it succeeds it returns the value of the reply and
\* the stale entry is replaced by that value.
C14_StaleEntryIsMiss ==
    StaleEntryLoaded =>
        /\ (pc = "loop" /\ sent = <<>>) =>
               (attempt = 0 /\ current_input = request.input_data)
        /\ sent # <<>> => sent[1] = request.input_data
        /\ LastCallLooped =>
               /\ Last(log).request = request
               /\ Last(log).calls = Len(sent)
               /\ Last(log).result = None => Last(log).calls = max_retries
               /\ Last(log).result # None =>
                      /\ Last(outcomes) = "valid"
                      /\ cache_file[RequestKey(request)] = dict(Last(log).result)
                      /\ cache_file[RequestKey(request)] # cache[RequestKey(request)]

\* an out-of-range entry was found, the second attempt succeeded and its value
\* is now in the cache file
C14_Witness ==
    /\ StaleEntryLoaded
    /\ LastCallLooped
    /\ cache[RequestKey(request)] = BadDoc
    /\ Last(log).calls = 2
    /\ Last(log).result # None
    /\ cache_file[RequestKey(request)] = dict(Last(log).result)

\* the input of the attempt after the k-th one: sent if it was made, else the
\* input the loop holds for it
InputAfter(k) == IF k < Len(sent) THEN sent[k + 1] ELSE current_input

\* p is base_prompt followed by a feedback block that quotes error
IsFeedbackPrompt(p, base_prompt, error) ==
    /\ Len(p) > Len(base_prompt) + 1
    /\ SubSeq(p, 1, Len(base_prompt)) = base_prompt
    /\ p[Len(base_prompt) + 1] = "--- FEEDBACK ---"
    /\ \E i \in (Len(base_prompt) + 2)..Len(p) : p[i] = error

C16_TransportRetryUnchanged ==
    /\ \A k \in 1..Len(sent) :
           (outcomes[k] = "exception" /\ k < max_retries) =>
               /\ InputAfter(k) = sent[k]
               /\ (k = Len(sent) => pc = "loop")
    /\ backoffs = Cardinality({ k \in 1..Len(outcomes) :
                                  outcomes[k] = "exception" /\ k < max_retries })

\* an invalid reply, then an exception, then the request with the feedback
\* block again
C16_Witness ==
    /\ Len(sent) = 3
    /\ outcomes[1] = "invalid" /\ outcomes[2] = "exception"
    /\ sent[3] = sent[2]
    /\ sent[3] # request.input_data
    /\ backoffs = 1

\* C19: when a call that reached the loop returns, the list the caller
\* passed as input_data holds what it held at the call.
C19_RequestNotModified ==
    LastCallLooped => current_input = Last(log).request.input_data

(***************************************************************************)
(* Properties of the pipeline (specifications SpecPipeline and             *)
(* FairSpecPipeline).                                                      *)
(***************************************************************************)
\* the findings of the agents that did not time out are in the Phase-2 result
SiblingsStored ==
    \A a \in (Agents \cap task_plan) \ timed_out :
        task[a] = "done" /\ expert_results[a] = task_result[a]

\* C6: when exactly one submitted extractor has timed out, the run still
\* goes on to Phase 3 with the findings of all the others stored.
C6_FanOutIsolation ==
    (stage = "collect" /\ pending = <<>> /\ Cardinality(timed_out) = 1)
        ~> (stage \in {"stage3", "done"} /\ SiblingsStored)

\* C7: after a Phase-2 task has timed out, Phase 3 still starts and the run
\* returns.
C7_TimeoutDoesNotBlock ==
    (timed_out # {}) ~> (stage = "done")

\* C8: when Phase 3 starts, no submitted Phase-2 task is still running.
C8_Phase3AfterAllTerminal ==
    stage = "stage3" =>
        \A a \in Agents : (a \in task_plan => task[a] = "done") /\ ~Running(task, a)

\* Phase 3 starts after a run in which a task timed out and finished late
C8_Witness ==
    /\ stage = "stage3"
    /\ Agents \subseteq task_plan
    /\ "geochemist" \in timed_out
    /\ expert_results["data_analyst"].status = "success"

\* C9: the finding of an extractor does not depend on the interleaving with
\* its siblings: the geochemist reports the data tables Phase 2 gave it.
C9_NoSharedMutableState ==
    task["geochemist"] = "done" =>
        task_result["geochemist"].seen = Len(input_tables)

\* C10: a run that obtained the document text returns a result that carries
\* a SynthesizedKnowledge.
C10_AlwaysSynthesizedKnowledge ==
    (stage = "done" /\ preprocessing_ok) =>
        final_result.synthesized_knowledge = "SynthesizedKnowledge"

\* C11: a run on a document whose text is empty or only whitespace returns a
\* success status and a SynthesizedKnowledge.
C11_EmptyDocumentDegradesGracefully ==
    (stage = "done" /\ document.stripped_len = 0) =>
        /\ final_result.status = "success"
        /\ final_result.synthesized_knowledge = "SynthesizedKnowledge"

\* the triage call raised, or its reply could not be parsed or validated
TriageFailed == triage \in {"raise", "not json", "invalid"}

\* Phase 1 is over
AfterPhase1 == stage \in {"stage2", "collect", "stage3", "done"}

\* Phase 2 has been run: the tasks of the plan were submitted
Phase2Executed ==
    /\ stage \in {"collect", "stage3", "done"}
    /\ \A a \in Agents : (task[a] # "none") <=> (a \in task_plan)

C12_HeuristicFallback ==
    (TriageFailed /\ AfterPhase1) =>
        /\ content_index.content_units =
               [i \in 1..Len(document.chunks) |->
                    DefaultContentUnit(document.chunks[i])]
        /\ Len(content_index.content_units) > 0
        /\ task_plan = create_task_plan(content_index.content_units)
        /\ final_result.status # "failed"
        /\ (stage = "done" =>
               /\ Phase2Executed
               /\ final_result.status = "success"
               /\ Invocation("knowledge_graph", Engine) \in invocations)

\* C12: when the triage call fails, the content units are those of the
\* keyword heuristic over the chunks, the task plan is made from them, the
\* run does not end in Phase 1, Phase 2 is executed, and the run can only
\* return through Phase 3.
C12_TriageFailureDoesNotAbort ==
    /\ []C12_HeuristicFallback
    /\ (TriageFailed /\ stage = "stage2") ~> Phase2Executed

\* the triage call raised on a document with a map and a geochemical chunk,
\* the plan of the heuristic was run and the run returned through Phase 3
C12_Witness ==
    /\ triage = "raise"
    /\ stage = "done"
    /\ task_plan = {"map_analyst", "geochemist", "text_synthesizer"}
    /\ expert_results["geochemist"].status = "success"
    /\ final_result.status = "success"

\* C13: after Phase 1 the task plan handed to Phase 2 holds at least one task.
C13_PlanNeverEmpty ==
    AfterPhase1 => task_plan # {}

\* C20: every extraction call of a run is made through
\* get_structured_data_with_retry.
C20_AllCallsThroughEngine ==
    \A c \in invocations : c.via = Engine

\* C18: after the caller interrupted the run, no Phase-2 task makes a further
\* extraction call, and when the run stops the tasks are where they were at
\* the interruption: the run did not wait for them.
C18_CancellationPropagates ==
    /\ \A c \in invocations : ~c.late
    /\ stage = "stopped" => task = task_at_cancel

(***************************************************************************)
(* Properties of concurrent calls (specification SpecWorkers).             *)
(***************************************************************************)
AllReturned == \A w \in Threads : workers[w].pc = "done"

\* C17: when all concurrent calls have returned, the cache file is one
\* well-formed document and holds, for the key of every call that returned
\* success, the value a successful call for that key returned.
C17_ConcurrentWritesKept ==
    AllReturned =>
        /\ file_ok
        /\ \A w \in Threads :
               workers[w].result # None =>
                   \E v \in Threads :
                       /\ RequestKey(workers[v].request) = RequestKey(workers[w].request)
                       /\ workers[v].result # None
                       /\ CacheHit(workers[v].request.model_class, cache_file,
                                   RequestKey(workers[v].request))
                       /\ parse_obj(workers[v].request.model_class,
                                    cache_file[RequestKey(workers[v].request)])
                              = workers[v].result

(***************************************************************************)
(* Properties of the Synthesizer (specification SpecSynth).                *)
(***************************************************************************)
\* the three checks have returned their ValidationResults
ChecksReturned ==
    \/ synth_pc \in {"map", "return"}
    \/ synth_pc = "done" /\ validation_results # NoValidation

\* C21: whatever the three cross-validation checks find, the Synthesizer
\* emits a SynthesizedKnowledge that carries the three ValidationResults; no
\* check aborts or blocks the synthesis
C21_ChecksNeverAbortSynthesis ==
    synth_pc = "done" =>
        /\ synth_output.synthesized_knowledge # None
        /\ DOMAIN synth_output.synthesized_knowledge.validation_results
               = CheckNames
        /\ synth_output.synthesized_knowledge.validation_results
               = cross_validate_knowledge(synth_input.map_analyst_result,
                                          synth_input.geochemist_result,
                                          synth_input.data_analyst_result)

\* what takes the place of a finding that is lost: the result of a failed
\* agent, or a success with an empty collection
DegradedCollections ==
    { NoCollection, Collection("dict", <<>>), Collection("model", <<>>) }

\* the inputs that differ from input_data only in that one non-empty
\* finding is replaced by a failed or an empty one
Degradations(input_data) ==
    { [input_data EXCEPT ![f] = ExpertResult(c)] :
          f \in { x \in {"map_analyst_result", "geochemist_result",
                         "data_analyst_result"} : input_data[x].count > 0 },
          c \in DegradedCollections }

\* C22: replacing one extractor's non-empty finding by an empty or failed
\* one gives a strictly lower overall confidence
C22_DegradationLowersConfidence ==
    synth_pc = "done" =>
        \A degraded \in Degradations(synth_input) :
            OverallConfidence(process(degraded)) < OverallConfidence(synth_output)

\* C23: the geochemical consistency check reports is_valid = true exactly
\* when conclusions_count > 0 implies standardized_tables_count > 0
C23_GeochemicalValidIffSupported ==
    ChecksReturned =>
        (validation_results["geochemical_consistency"].is_valid
         <=> (synth_input.geochemist_result.count > 0
              => synth_input.data_analyst_result.count > 0))

\* the records of one table of the database
RecordsOf(table_name) ==
    SelectSeq(database_records, LAMBDA r : r.table_name = table_name)

\* the number of rows of the tables of the input that are drilling tables
RECURSIVE DrillingRows(_)
DrillingRows(tables) ==
    IF tables = <<>> THEN 0
    ELSE (IF is_drilling_table(Head(tables)) THEN Head(tables).n_rows ELSE 0)
         + DrillingRows(Tail(tables))

\* C24: when the run has no location record, every geochemical conclusion
\* still yields a geochemistry record and every row of a drilling table
\* still yields a drilling record, each with a null location foreign key
C24_NoRecordDroppedWithoutLocation ==
    (synth_pc = "done" /\ synth_output.processing_status = "success"
        /\ RecordsOf("locations") = <<>>) =>
        /\ Len(RecordsOf("geochemistry")) = synth_input.geochemist_result.count
        /\ Len(RecordsOf("drilling_data"))
               = DrillingRows(synth_input.data_analyst_result.collection.items)
        /\ \A i \in 1..Len(database_records) :
               database_records[i].table_name \in {"geochemistry", "drilling_data"}
                   => /\ database_records[i].location_id = NullId
                      /\ database_records[i].relationships = <<>>

\* the number of edges of the fused graph from one node to another
Edges(source, target) ==
    Cardinality({ k \in 1..Len(intermediate_kg.relationships) :
                    /\ intermediate_kg.relationships[k].source_node = source.id
                    /\ intermediate_kg.relationships[k].target_node = target.id })

\* the lower-cased names share a whitespace-separated token
SharesToken(name1, name2) ==
    \E token \in split(lower(name1), <<>>) : token \in split(lower(name2), <<>>)

\* the fused graph has been built
GraphBuilt == synth_pc \in {"validate", "map", "return", "done"}

\* C25: the fused graph has exactly one edge from a spatial-feature node
\* to a geochemical-conclusion node when their lower-cased names share a
\* token, and no other edge
C25_EdgesByTokenOverlap ==
    GraphBuilt =>
        LET nodes == intermediate_kg.nodes
            linked(i, j) ==
                /\ nodes[i].type = "spatial_feature"
                /\ nodes[j].type = "geochemical_conclusion"
                /\ SharesToken(nodes[i].name, nodes[j].name)
        IN  /\ \A i, j \in 1..Len(nodes) :
                   Edges(nodes[i], nodes[j]) = IF linked(i, j) THEN 1 ELSE 0
            /\ Len(intermediate_kg.relationships)
                   = Cardinality({ p \in (1..Len(nodes)) \X (1..Len(nodes)) :
                                      linked(p[1], p[2]) })

\* a graph with an edge by a token that differs in case, a spatial and a
\* geochemical node without a common token, and a text node that shares a
\* token with a spatial node
C25_Witness ==
    /\ synth_pc = "done"
    /\ synth_output.processing_status = "success"
    /\ LET nodes == intermediate_kg.nodes IN
       \E i, j, k, t \in 1..Len(nodes) :
           /\ nodes[i].type = "spatial_feature"
           /\ nodes[j].type = "geochemical_conclusion"
           /\ nodes[k].type = "geochemical_conclusion"
           /\ nodes[t].type = "text_entity"
           /\ Edges(nodes[i], nodes[j]) = 1
           /\ nodes[i].name = <<"Z">>
           /\ Edges(nodes[i], nodes[k]) = 0
           /\ SharesToken(nodes[i].name, nodes[t].name)
           /\ Edges(nodes[i], nodes[t]) = 0

\* the number of the categories spatial, geochemical, tabular that are
\* present in the input
PresentCategories ==
    Cardinality({ f \in {"map_analyst_result", "geochemist_result",
                         "data_analyst_result"} : synth_input[f].count > 0 })

\* C30: the completeness check is valid, with confidence 1, exactly when
\* the three categories are present; with two of the three it is invalid,
\* has one issue and confidence 2/3; its confidence is always in [0, 1]
C30_CompletenessCheck ==
    ChecksReturned =>
        LET result == validation_results["data_completeness"] IN
        /\ result.is_valid <=> PresentCategories = 3
        /\ result.is_valid => result.confidence_score = Score(1, 1)
        /\ PresentCategories = 2 =>
               /\ ~result.is_valid
               /\ Len(result.issues) = 1
               /\ result.confidence_score = Score(2, 3)
        /\ 0 <= result.confidence_score
        /\ result.confidence_score <= Score(1, 1)

\* a synthesis that returned with two of the three categories present
C30_Witness ==
    /\ synth_pc = "done"
    /\ synth_output.processing_status = "success"
    /\ PresentCategories = 2
    /\ ~synth_output.synthesized_knowledge
           .validation_results["data_completeness"].is_valid

(***************************************************************************)
(* Further properties of the extraction engine (specification Spec).       *)
(***************************************************************************)
\* text is a JSON document that is valid for the schema, plain, fenced in
\* a code block, or with text around it
ShapedValidReply(model_class, text) ==
    \E doc \in JsonDocs :
        /\ ValidationErrors(model_class, doc) = ""
        /\ text \in {PlainReply(doc), FencedReply(doc), ProseReply(doc)}

\* C26: an attempt whose reply is a schema-valid JSON document in any of
\* the three shapes makes the call return success on that attempt
C26_ReplyShapesAccepted ==
    [][\A text \in Replies :
           (AttemptReply(text) /\ ShapedValidReply(request.model_class, text))
               => /\ Len(log') = Len(log) + 1
                  /\ Last(log').result # None
                  /\ attempt' = attempt]_vars

\* C28: a step of a call that does not return success leaves the cache
\* file as it is, and the return of a success changes at most the entry of
\* the key of its request
C28_CacheAppendOnly ==
    [][IF Len(log') = Len(log) + 1 /\ Last(log').result # None
       THEN \A k \in Keys \ {RequestKey(Last(log').request)} :
                cache_file'[k] = cache_file[k]
       ELSE cache_file' = cache_file]_vars

\* a call has failed, and a later call has written its entry while the
\* entry of another key is in the file
C28_Witness ==
    /\ pc = "idle"
    /\ \E i \in 1..Len(log) : log[i].result = None
    /\ Last(log).result # None
    /\ Last(log).calls > 0
    /\ cache_file[RequestKey(Last(log).request)] = dict(Last(log).result)
    /\ \E k \in Keys \ {RequestKey(Last(log).request)} : cache_file[k] # Absent

\* C29: two requests have the same cache key only if they have the same
\* base prompt and the same list of context payloads
C29_KeyDeterminesRequest ==
    \A i, j \in 1..Len(log) :
        RequestKey(log[i].request) = RequestKey(log[j].request) =>
            /\ log[i].request.base_prompt = log[j].request.base_prompt
            /\ Tail(log[i].request.input_data) = Tail(log[j].request.input_data)

(***************************************************************************)
(* Properties of process_single_pdf (specification SpecPdf).               *)
(***************************************************************************)
\* the number of calls of get_structured_data_with_retry made for a schema
Invocations(model_class) ==
    Len(SelectSeq(log, LAMBDA r : r.request.model_class = model_class))

RECURSIVE ServiceCalls(_)
\* the number of calls of the completion service made by returned calls
ServiceCalls(returned) ==
    IF returned = <<>> THEN 0
    ELSE Head(returned).calls + ServiceCalls(Tail(returned))

\* no reply was rejected and no call failed
FirstAttemptAccepted ==
    \A i \in 1..Len(log) : log[i].result # None /\ log[i].calls <= 1

\* a run that started with an empty cache file, on a document with one
\* chunk and no image, with every reply accepted, makes three service calls
ThreeCallsForOneChunk ==
    cache_file = EmptyPdfCache =>
        []((/\ pdf_pc = "done"
            /\ Len(pdf_document.chunks) = 1
            /\ pdf_document.image_paths = <<>>
            /\ FirstAttemptAccepted) => ServiceCalls(log) = 3)

====
